---- MODULE Spec2Model ----
(***************************************************************************)
(* node-gitlab-2-github: the migration of a GitLab project's milestones,  *)
(* labels, issues (with notes) and merge requests to a GitHub repository. *)
(*                                                                         *)
(* The model is the state machine of migrate() and of the functions it    *)
(* calls.  The main async function is one thread of control (pc); every   *)
(* request to GitHub that changes the repository is a record in inflight  *)
(* from the moment the client function is called until its response.  A   *)
(* request whose promise the caller awaits blocks pc until the response;  *)
(* a request whose promise is dropped does not.                           *)
(***************************************************************************)
EXTENDS Integers, Sequences, FiniteSets, TLC

\* ------------------------------------------------------------------ bounds

\* the source project holds at most MaxItems milestones, labels, issues and
\* merge requests in all; the issues' iids are at most MaxIid, the merge
\* requests' at most MaxMrIid; an issue carries at most MaxNotes notes
MaxItems == 2
MaxIid == 4
MaxMrIid == 2
MaxNotes == 3
MaxRuns == 2
MaxFaults == 1
\* the destination issues that exist before a listing: up to two full pages and one
MaxHubIssues == 201

\* ------------------------------------------------------- program constants

\* per_page of the one label listing request
LabelsPerPage == 100

\* the one milestone listing request names no per_page: GitHub's default applies
MilestonesPerPage == 30

\* per_page of the issue listing requests of getAllGHIssues
perPage == 100

\* the default parameter useLowerCase = true of transferLabels
useLowerCase == TRUE

\* the default parameter attachmentLabel = true of transferLabels
attachmentLabel == TRUE

hasAttachmentLabel == [name |-> "has attachment", color |-> "#fbca04"]

\* settings.github.username, the authenticated user of the migration
githubUsername == "migrator"

\* settings.usermap and settings.projectmap, as sets of <<key, value>>
usermap == {<<"alice", "alice-gh">>}
projectmap == {<<"grp/proj", "org/proj">>}

\* map[key], "" for undefined
Lookup(map, key) ==
  IF \E e \in map : e[1] = key THEN (CHOOSE e \in map : e[1] = key)[2] ELSE ""

\* a text is the sequence of its tokens; a placeholder has no assignee, no
\* author, no labels property and no iid
placeholderItem ==
  [id |-> 0, iid |-> 0, real |-> FALSE,
   title |-> "placeholder issue for issue which does not exist and was probably deleted in GitLab",
   state |-> "closed", milestone |-> "", notes |-> <<>>,
   description |-> <<"This is to ensure the issue numbers in GitLab and GitHub are the same">>,
   author |-> "", assignee |-> "", hasLabels |-> FALSE, labels |-> <<>>]

\* ------------------------------------------------------------------ state

VARIABLES
  gitlab,          \* the source project, as the GitLab API returns it
  settings,        \* the settings module: the project keys of settings.gitlab
  sourceRequests,  \* history: the requests sent to GitLab, [kind, projectId], this run
  hubMilestones,   \* GitHub: the repository's milestones, in creation order
  hubLabels,       \* GitHub: the repository's labels the run can name, in creation order
  hubOtherLabels,  \* GitHub: how many other labels were created before those
  hubIssues,       \* GitHub: the repository's issues and pull requests, by number
  hubRefs,         \* GitHub: the repository's branch names
  hubComments,     \* GitHub: the issue comments, in creation order
  pc,              \* where migrate() stands
  status,          \* running | done | exited | crashed | aborted
  exitCode,        \* the exit code of the process, -1 while it runs
  run,             \* the number of the run of the process
  i,               \* the loop index of the running migrator
  j,               \* the note index of createIssueComments
  milestones,      \* transferMilestones: the fetched source milestones
  ghMilestones,    \* transferMilestones: the listed destination milestones
  labels,          \* transferLabels: the fetched source labels
  ghLabels,        \* transferLabels: the listed destination label names
  milestoneData,   \* transferIssues: the listed destination milestones
  issues,          \* transferIssues: the source issues, then with placeholders
  ghIssues,        \* transferIssues: the listed destination issues
  ghIssue,         \* createIssueAndComments: the created destination issue
  mergeRequests,   \* transferMergeRequests: the fetched merge requests
  ghPullRequests,  \* transferMergeRequests: the listed destination pull requests
  inflight,        \* the write requests sent to GitHub and not yet answered
  log,             \* what the program printed: a set of [msg, key]
  requests,        \* history: the write requests issued, [run, kind, title, idx, num]
  unhandled,       \* history: the calls whose rejected promise nothing handled, this run
  failed,          \* history: the remote calls that failed, [kind, title], this run
  ended,           \* history: how the earlier runs ended, [status, failed, faults]
  faults           \* how many faults (failed calls, aborts) were injected

vars == <<gitlab, settings, sourceRequests, hubMilestones, hubLabels, hubOtherLabels, hubIssues, hubRefs,
          hubComments, pc, status, exitCode, run, i, j, milestones, ghMilestones, labels,
          ghLabels, milestoneData, issues, ghIssues, ghIssue, mergeRequests,
          ghPullRequests, inflight, log, requests, unhandled, failed, ended, faults>>

hubVars == <<hubMilestones, hubLabels, hubOtherLabels, hubIssues, hubRefs, hubComments>>

tmVars == <<milestones, ghMilestones>>
tlVars == <<labels, ghLabels>>
tiVars == <<milestoneData, issues, ghIssues>>
tmrVars == <<mergeRequests, ghPullRequests>>
listVars == <<tmVars, tlVars, tiVars, tmrVars>>
procVars == <<status, exitCode, run, ended>>

\* ---------------------------------------------------------------- helpers

\* Array.prototype.find: the index of the first element that satisfies P, 0 for none
Find(s, P(_)) ==
  IF \E k \in 1..Len(s) : P(s[k])
  THEN CHOOSE k \in 1..Len(s) : P(s[k]) /\ \A m \in 1..(k - 1) : ~P(s[m])
  ELSE 0

RECURSIVE Insert(_, _)
Insert(x, s) ==
  IF s = <<>> THEN <<x>>
  ELSE IF x.id < Head(s).id THEN <<x>> \o s
  ELSE <<Head(s)>> \o Insert(x, Tail(s))

\* arr.sort((a, b) => a.id - b.id)
RECURSIVE SortById(_)
SortById(s) == IF s = <<>> THEN <<>> ELSE Insert(Head(s), SortById(Tail(s)))

\* String.prototype.toLowerCase on the label names of the model
toLowerCase(s) ==
  CASE s = "Bug" -> "bug"
    [] s = "Docs" -> "docs"
    [] OTHER -> s

\* String.prototype.trim on the titles of the model
trim(s) ==
  CASE s = " I1" -> "I1"
    [] OTHER -> s

\* the properties of a request that only issues and comments carry
NoProps == [assignees |-> <<>>, labels |-> <<>>, body |-> <<>>, description |-> ""]

NoRequest == [kind |-> "none", awaited |-> FALSE, idx |-> 0, title |-> "", num |-> 0, a |-> "", b |-> "",
              props |-> NoProps]

Request(kind, awaited, idx, title, num, a, b) ==
  [kind |-> kind, awaited |-> awaited, idx |-> idx, title |-> title, num |-> num, a |-> a, b |-> b,
   props |-> NoProps]

\* String.prototype.indexOf(pattern) > -1 and RegExp.prototype.test for a
\* pattern without wildcard but a trailing one: the tokens of pat are in text,
\* one after the other
Contains(text, pat) ==
  \E k \in 0..(Len(text) - Len(pat)) : \A m \in 1..Len(pat) : text[k + m] = pat[m]

\* '@' + username on the user names of the model
Mention(u) ==
  CASE u = "alice" -> "@alice"
    [] u = "alice-gh" -> "@alice-gh"
    [] u = "bob" -> "@bob"
    [] u = "carol" -> "@carol"
    [] OTHER -> "@migrator"

\* project + '#' on the project names of the model
ProjectRef(q) ==
  CASE q = "grp/proj" -> "grp/proj#"
    [] OTHER -> "org/proj#"

\* the history entry of a request issued now
Issued(r) == [run |-> run, kind |-> r.kind, title |-> r.title, idx |-> r.idx, num |-> r.num]

\* the history entry of the failed request r; a comment is named by its issue
Failure(r) == [kind |-> r.kind, title |-> r.title]

Log(msg, key) == [msg |-> msg, key |-> key]

\* the history entry of a request sent to GitLab for project projectId
SourceRequest(kind, projectId) == [kind |-> kind, projectId |-> projectId]

Running == status = "running"

\* the main thread is not waiting for a response
Awaiting == \E r \in inflight : r.awaited

\* ----------------------------------------------------------------- inputs

MilestoneTitles == <<"M1", "M2", "M3">>
LabelNames == <<"Bug", "bug", "Docs">>
\* the title of issue 4 is that of issue 1 but for a leading blank
IssueTitles == <<"I1", "I2", "I3", " I1", "I5">>
MrTitles == <<"MR1", "MR2", "MR3">>
IssueStates == {"opened", "closed"}
MrStates == {"opened", "merged", "closed", "locked"}

\* the description, the state and the due date of the source milestones, by
\* id: the second one is closed and has neither description nor due date
\* ("" stands for null)
MilestoneDescriptions == <<"first release", "", "third release">>
MilestoneStates == <<"active", "closed", "active">>
MilestoneDueDates == <<"2017-06-01", "", "2017-12-24">>

\* k source milestones, newest first as the API lists them
GlMilestones(k) ==
  [n \in 1..k |->
     [id |-> k + 1 - n, title |-> MilestoneTitles[k + 1 - n],
      description |-> MilestoneDescriptions[k + 1 - n],
      state |-> MilestoneStates[k + 1 - n],
      due_date |-> MilestoneDueDates[k + 1 - n]]]

\* the color of the second label has no leading '#'
LabelColors == <<"#d9534f", "d9534f", "#5cb85c">>
GlLabels(k) == [n \in 1..k |-> [name |-> LabelNames[n], color |-> LabelColors[n]]]

\* the assignee, the description and the labels of the detailed issues, by iid:
\* issue 1 is assigned to the migration user, issue 2 to a user of the usermap,
\* issue 4 to another user; issue 3 has no labels property, issue 4 an empty one
IssueAssignees == <<"migrator", "alice", "", "carol", "">>
IssueDescriptions ==
  << <<"see", "/uploads/", "@alice", "grp/proj#", "7">>, <<"plain">>, <<"/uploads/">>,
     <<"/uploads/">>, <<"plain">> >>
IssueHasLabels == <<TRUE, TRUE, FALSE, TRUE, TRUE>>
IssueLabels == << <<"bug">>, <<"bug">>, <<>>, <<>>, <<>> >>

\* the notes of a detailed issue, newest first as the API lists them
NoteBodies ==
  << <<"thanks", "@alice">>,
     <<"Status changed to", "closed", "by commit", "abc123">>,
     <<"Status changed to", "closed">>,
     <<"Status changed to", "reopened">> >>
GlNotes(n) == [k \in 1..n |-> [id |-> n + 1 - k, body |-> NoteBodies[n + 1 - k], author |-> "bob"]]

\* the source issue with sequence number iid: its id grows with its iid and it
\* belongs to one of the k milestones when there is one.  A plain issue has no
\* assignee, an empty description, no label, and one note when its iid is odd;
\* a detailed issue has the properties of the tables above, and notes when its
\* iid is odd
GlIssue(iid, state, k, detailed) ==
  [id |-> 10 + iid, iid |-> iid, real |-> TRUE, title |-> IssueTitles[iid], state |-> state,
   milestone |-> IF k = 0 THEN "" ELSE MilestoneTitles[((iid - 1) % k) + 1],
   notes |-> IF iid % 2 = 0 THEN <<>> ELSE IF detailed THEN GlNotes(MaxNotes) ELSE GlNotes(1),
   description |-> IF detailed THEN IssueDescriptions[iid] ELSE <<>>,
   author |-> IF detailed THEN "bob" ELSE "",
   assignee |-> IF detailed THEN IssueAssignees[iid] ELSE "",
   hasLabels |-> IF detailed THEN IssueHasLabels[iid] ELSE TRUE,
   labels |-> IF detailed THEN IssueLabels[iid] ELSE <<>>]

\* the issues of the iids in S, newest first
RECURSIVE GlIssues(_, _, _, _)
GlIssues(S, st, k, detailed) ==
  IF S = {} THEN <<>>
  ELSE LET m == CHOOSE x \in S : \A y \in S : y <= x
       IN <<GlIssue(m, st[m], k, detailed)>> \o GlIssues(S \ {m}, st, k, detailed)

GlMergeRequest(iid, state) ==
  [id |-> 20 + iid, iid |-> iid, title |-> MrTitles[iid], state |-> state,
   source_branch |-> "feature", target_branch |-> "master",
   sha |-> "head", merge_commit_sha |-> IF state = "merged" THEN "merge" ELSE "",
   parent_ids |-> <<"base", "head">>]

\* the merge requests of the iids in S, newest first
RECURSIVE GlMergeRequests(_, _)
GlMergeRequests(S, st) ==
  IF S = {} THEN <<>>
  ELSE LET m == CHOOSE x \in S : \A y \in S : y <= x
       IN <<GlMergeRequest(m, st[m])>> \o GlMergeRequests(S \ {m}, st)

\* the projects of at most MaxItems items whose issues are plain
PlainProjects ==
  { p \in { [milestones |-> GlMilestones(k), labels |-> GlLabels(l),
             issues |-> GlIssues(S, st, k, FALSE), mergeRequests |-> GlMergeRequests(R, mst)] :
              k \in 0..MaxItems, l \in 0..MaxItems,
              S \in {T \in SUBSET (1..MaxIid) : Cardinality(T) <= MaxItems},
              st \in [1..MaxIid -> IssueStates],
              R \in {T \in SUBSET (1..MaxMrIid) : Cardinality(T) <= MaxItems},
              mst \in [1..MaxMrIid -> MrStates] } :
      Len(p.milestones) + Len(p.labels) + Len(p.issues) + Len(p.mergeRequests) <= MaxItems }

\* the projects that hold nothing but detailed issues, at most MaxItems of them
DetailedProjects ==
  { [milestones |-> <<>>, labels |-> <<>>,
     issues |-> GlIssues(S, st, 0, TRUE), mergeRequests |-> <<>>] :
      S \in {T \in SUBSET (1..MaxIid) : T # {} /\ Cardinality(T) <= MaxItems},
      st \in [1..MaxIid -> IssueStates] }

\* the project that holds nothing but merge request 1, merged by a merge
\* commit whose parents are the target branch and a squash commit, neither of
\* them the head of the merge request
SquashProjects ==
  { [milestones |-> <<>>, labels |-> <<>>, issues |-> <<>>,
     mergeRequests |-> <<[GlMergeRequest(1, "merged") EXCEPT !.parent_ids = <<"base", "squash">>]>>] }

\* the project of one closed issue and one merged merge request of the same title
SameTitleProjects ==
  { [milestones |-> <<>>, labels |-> <<>>,
     issues |-> GlIssues({1}, [n \in 1..MaxIid |-> "closed"], 0, FALSE),
     mergeRequests |-> <<[GlMergeRequest(1, "merged") EXCEPT !.title = IssueTitles[1]]>>] }

GitlabProjects == PlainProjects \cup DetailedProjects \cup SquashProjects \cup SameTitleProjects

\* settings.gitlab: the sample settings as they are (projectID null), the
\* sample settings with the project filled in under their key projectID, and
\* settings with the project under the key projectId
GitlabSettings ==
  { [gitlab |-> [projectID |-> "null", projectId |-> "undefined"]],
    [gitlab |-> [projectID |-> "5", projectId |-> "undefined"]],
    [gitlab |-> [projectID |-> "undefined", projectId |-> "5"]] }

\* ------------------------------------------------------------------- Init

NoIssue == [number |-> 0, state |-> ""]

Init ==
  /\ gitlab \in GitlabProjects
  /\ settings \in GitlabSettings
  /\ sourceRequests = {}
  /\ hubMilestones = <<>>
  /\ hubLabels = <<>>
  /\ hubOtherLabels \in {0, LabelsPerPage}
  /\ hubIssues = <<>>
  /\ hubRefs = {}
  /\ hubComments = <<>>
  /\ pc = "start"
  /\ status = "running"
  /\ exitCode = -1
  /\ run = 1
  /\ ended = <<>>
  /\ i = 0
  /\ j = 0
  /\ milestones = <<>>
  /\ ghMilestones = <<>>
  /\ labels = <<>>
  /\ ghLabels = <<>>
  /\ milestoneData = <<>>
  /\ issues = <<>>
  /\ ghIssues = <<>>
  /\ ghIssue = NoIssue
  /\ mergeRequests = <<>>
  /\ ghPullRequests = <<>>
  /\ inflight = {}
  /\ log = {}
  /\ requests = {}
  /\ unhandled = {}
  /\ failed = {}
  /\ faults = 0

\* ------------------------------------------------- the client's reactions

\* what a response can change in the process
clientVars == <<pc, i, j, ghIssue, log, unhandled, status, exitCode>>

\* the main thread may take a step: the process runs and awaits no response
Ready(at) == Running /\ pc = at /\ ~Awaiting

\* a rejected promise nobody handles: the runtime reports it and, depending on
\* its version, goes on or ends the process with exit code 1
UnhandledRejection(r) ==
  /\ unhandled' = unhandled \cup {r.kind}
  /\ \/ UNCHANGED <<status, exitCode>>
     \/ status' = "crashed" /\ exitCode' = 1
  /\ UNCHANGED <<pc, i, j, ghIssue, log>>

\* the catch block of the loop of transferIssues
transferIssues_catch ==
  /\ log' = log \cup {Log("Could not create issue", issues[i].title)}
  /\ pc' = "ti_loop"
  /\ i' = i + 1
  /\ j' = 0
  /\ ghIssue' = NoIssue
  /\ UNCHANGED <<unhandled, status, exitCode>>

\* the catch block of the loop of transferMergeRequests
transferMergeRequests_catch ==
  /\ log' = log \cup {Log("Could not create PR", mergeRequests[i].title)}
  /\ pc' = "tmr_loop"
  /\ i' = i + 1
  /\ UNCHANGED <<j, ghIssue, unhandled, status, exitCode>>

\* a createGHBranch without try: the rejection reaches the catch of the loop
\* of transferMergeRequests
createGHBranch_withoutTry(r, exists) == transferMergeRequests_catch

\* the catch block of createGHBranch: both arms print and return undefined
createGHBranch_catch(r, exists) ==
  /\ log' = log \cup {Log(IF exists THEN "Branch already exists"
                                    ELSE "Could not create branch", r.title)}
  /\ pc' = IF r.b = "head" THEN "pr_commit" ELSE "pr_create"
  /\ UNCHANGED <<i, j, ghIssue, unhandled, status, exitCode>>

\* a rejection handling without the catch of createComment: the rejected
\* comment is caught by the try of createIssueComments, which ends its loop
Rejected_withoutCommentCatch(r, exists) ==
  IF ~Running THEN UNCHANGED clientVars
  ELSE CASE r.kind = "createMilestone" ->
              IF r.awaited
              THEN /\ log' = log \cup {Log("Could not create milestone", r.title)}
                   /\ UNCHANGED <<pc, i, j, ghIssue, unhandled, status, exitCode>>
              ELSE UnhandledRejection(r)
         [] r.kind = "createLabel" -> UNCHANGED clientVars
         [] r.kind = "createIssue" -> transferIssues_catch
         [] r.kind = "createComment" ->
              /\ log' = log \cup {Log("Could not fetch notes", issues[i].title)}
              /\ pc' = "us"
              /\ UNCHANGED <<i, j, ghIssue, unhandled, status, exitCode>>
         [] r.kind = "editIssue" ->
              IF r.awaited THEN transferIssues_catch ELSE UnhandledRejection(r)
         [] r.kind = "createReference" -> createGHBranch_catch(r, exists)
         [] r.kind = "createPR" -> transferMergeRequests_catch

\* the promise of request r is rejected; exists: with "Reference already exists"
Rejected(r, exists) ==
  IF ~Running THEN UNCHANGED clientVars
  ELSE CASE r.kind = "createMilestone" ->
              IF r.awaited
              THEN /\ log' = log \cup {Log("Could not create milestone", r.title)}
                   /\ UNCHANGED <<pc, i, j, ghIssue, unhandled, status, exitCode>>
              ELSE UnhandledRejection(r)
         [] r.kind = "createLabel" -> UNCHANGED clientVars
         [] r.kind = "createIssue" -> transferIssues_catch
         [] r.kind = "createComment" ->
              /\ j' = j + 1
              /\ pc' = "cc_loop"
              /\ UNCHANGED <<i, ghIssue, log, unhandled, status, exitCode>>
         [] r.kind = "editIssue" ->
              IF r.awaited THEN transferIssues_catch ELSE UnhandledRejection(r)
         [] r.kind = "createReference" -> createGHBranch_catch(r, exists)
         [] r.kind = "createPR" -> transferMergeRequests_catch

\* a request is sent: it is in flight and in the history
Send(r) ==
  /\ inflight' = inflight \cup {r}
  /\ requests' = requests \cup {Issued(r)}

\* --------------------------------------------------------------- migrate

\* await github.misc.getRateLimit(), before the migrators
\* listProjects(), called when settings.gitlab.projectID === null: the projects
\* are printed, or the error of the fetch is
listProjects ==
  /\ Ready("start")
  /\ settings.gitlab.projectID = "null"
  /\ \/ /\ log' = log \cup {Log("Select which project ID should be transported to github", "")}
        /\ UNCHANGED <<failed, faults>>
     \/ /\ faults < MaxFaults
        /\ faults' = faults + 1
        /\ failed' = failed \cup {[kind |-> "listProjects", title |-> ""]}
        /\ log' = log \cup {Log("An Error occured while fetching all projects", "")}
  /\ pc' = "returned"
  /\ UNCHANGED <<gitlab, settings, sourceRequests, hubVars, procVars, i, j, ghIssue,
                 listVars, inflight, requests, unhandled>>

migrate_begin ==
  /\ Ready("start")
  /\ settings.gitlab.projectID # "null"
  /\ pc' = "tm_fetch"
  /\ UNCHANGED <<gitlab, settings, sourceRequests, hubVars, procVars, i, j, ghIssue, listVars, inflight, log,
                 requests, unhandled, failed, faults>>

\* ---------------------------------------------------- transferMilestones

\* let milestones = await gitlab.ProjectMilestones.all(projectId); sorted by id
\* the request for the milestones of an undefined project is rejected, and
\* nothing handles the rejection
transferMilestones_fetch ==
  /\ Ready("tm_fetch")
  /\ sourceRequests' = sourceRequests \cup
                          {SourceRequest("ProjectMilestones.all", settings.gitlab.projectId)}
  /\ IF settings.gitlab.projectId = "undefined"
     THEN /\ failed' = failed \cup {[kind |-> pc, title |-> ""]}
          /\ unhandled' = unhandled \cup {pc}
          /\ status' = "crashed"
          /\ exitCode' \in {0, 1}
          /\ UNCHANGED <<milestones, pc>>
     ELSE /\ milestones' = SortById(gitlab.milestones)
          /\ pc' = "tm_list"
          /\ UNCHANGED <<failed, unhandled, status, exitCode>>
  /\ UNCHANGED <<gitlab, settings, hubVars, run, ended, i, j, ghIssue, ghMilestones, tlVars,
                 tiVars, tmrVars, inflight, log, requests, faults>>

\* github.issues.getMilestones({owner, repo, state: 'all'}): the first page, then
\* result.data.map(x => ({number: x.number, title: x.title}))
getAllGHMilestones ==
  LET n == IF Len(hubMilestones) < MilestonesPerPage THEN Len(hubMilestones)
           ELSE MilestonesPerPage
  IN [k \in 1..n |-> [number |-> hubMilestones[k].number, title |-> hubMilestones[k].title]]

\* let ghMilestones = await getAllGHMilestones(owner, repo)
transferMilestones_list ==
  /\ Ready("tm_list")
  /\ ghMilestones' = getAllGHMilestones
  /\ i' = 1
  /\ pc' = "tm_loop"
  /\ UNCHANGED <<gitlab, settings, sourceRequests, hubVars, procVars, j, ghIssue, milestones, tlVars, tiVars,
                 tmrVars, inflight, log, requests, unhandled, failed, faults>>

\* the promise of createMilestone inside await (() => { ... })() is dropped:
\* the arrow function's block returns undefined, and that is what is awaited
createMilestoneAwaited == FALSE

\* milestone.due_date + 'T00:00:00Z' on the due dates of the model
due_on(due_date) ==
  CASE due_date = "2017-06-01" -> "2017-06-01T00:00:00Z"
    [] due_date = "2017-12-24" -> "2017-12-24T00:00:00Z"
    [] OTHER -> "T00:00:00Z"

\* a createMilestone that creates every milestone open
createMilestone_alwaysOpen(milestone) ==
  [Request("createMilestone", createMilestoneAwaited, 0, milestone.title, 0, "open",
           IF milestone.due_date # "" THEN due_on(milestone.due_date) ELSE "")
     EXCEPT !.props = [NoProps EXCEPT !.description = milestone.description]]

\* createMilestone(owner, repo, milestone): the request carries the state in a
\* and due_on in b, "" for a ghMilestone without due_on
createMilestone(milestone) ==
  [Request("createMilestone", createMilestoneAwaited, 0, milestone.title, 0,
           IF milestone.state = "active" THEN "open" ELSE "closed",
           IF milestone.due_date # "" THEN due_on(milestone.due_date) ELSE "")
     EXCEPT !.props = [NoProps EXCEPT !.description = milestone.description]]

\* one iteration of for (let milestone of milestones)
transferMilestones_loop ==
  /\ Ready("tm_loop")
  /\ i <= Len(milestones)
  /\ LET milestone == milestones[i]
     IN IF Find(ghMilestones, LAMBDA m : m.title = milestone.title) = 0
        THEN /\ Send(createMilestone(milestone))
             /\ log' = log \cup {Log("Creating", milestone.title)}
        ELSE /\ log' = log \cup {Log("Already exists", milestone.title)}
             /\ UNCHANGED <<inflight, requests>>
  /\ i' = i + 1
  /\ UNCHANGED <<gitlab, settings, sourceRequests, hubVars, pc, procVars, j, ghIssue, listVars, unhandled,
                 failed, faults>>

\* the loop is over: transferMilestones returns and migrate calls transferLabels
transferMilestones_return ==
  /\ Ready("tm_loop")
  /\ i > Len(milestones)
  /\ pc' = "tl_fetch"
  /\ i' = 0
  /\ milestones' = <<>>
  /\ ghMilestones' = <<>>
  /\ UNCHANGED <<gitlab, settings, sourceRequests, hubVars, procVars, j, ghIssue, tlVars, tiVars, tmrVars,
                 inflight, log, requests, unhandled, failed, faults>>

\* GitHub answers a createMilestone request: 201 and the milestone exists, or
\* 422 when a milestone of that title exists
github_createMilestone(r) ==
  /\ r \in inflight
  /\ r.kind = "createMilestone"
  /\ inflight' = inflight \ {r}
  /\ IF \E n \in 1..Len(hubMilestones) : hubMilestones[n].title = r.title
     THEN /\ failed' = failed \cup {Failure(r)}
          /\ Rejected(r, FALSE)
          /\ UNCHANGED hubMilestones
     ELSE /\ hubMilestones' = Append(hubMilestones,
                                [number |-> Len(hubMilestones) + 1, title |-> r.title,
                                 description |-> r.props.description, state |-> r.a,
                                 due_on |-> r.b])
          /\ UNCHANGED <<failed, clientVars>>
  /\ UNCHANGED <<gitlab, settings, sourceRequests, hubLabels, hubOtherLabels, hubIssues, hubRefs, hubComments,
                 run, ended, listVars, requests, faults>>

\* -------------------------------------------------------- transferLabels

\* let labels = await gitlab.Labels.all(projectId)
transferLabels_fetch ==
  /\ Ready("tl_fetch")
  /\ labels' = gitlab.labels
  /\ sourceRequests' = sourceRequests \cup {SourceRequest("Labels.all", settings.gitlab.projectId)}
  /\ pc' = "tl_list"
  /\ UNCHANGED <<gitlab, settings, hubVars, procVars, i, j, ghIssue, tmVars, ghLabels, tiVars,
                 tmrVars, inflight, log, requests, unhandled, failed, faults>>

\* github.issues.getLabels({owner, repo, per_page: 100}): the first page, of at
\* most 100 labels in creation order, and no request for a second page
getAllGHLabelNames ==
  LET room == LabelsPerPage - hubOtherLabels
      n == IF Len(hubLabels) < room THEN Len(hubLabels) ELSE IF room < 0 THEN 0 ELSE room
  IN [k \in 1..n |-> hubLabels[k].name]

\* let ghLabels = await getAllGHLabelNames(owner, repo); labels.push(hasAttachmentLabel)
transferLabels_list ==
  /\ Ready("tl_list")
  /\ ghLabels' = getAllGHLabelNames
  /\ labels' = IF attachmentLabel THEN Append(labels, hasAttachmentLabel) ELSE labels
  /\ i' = 1
  /\ pc' = "tl_loop"
  /\ UNCHANGED <<gitlab, settings, sourceRequests, hubVars, procVars, j, ghIssue, tmVars, tiVars, tmrVars,
                 inflight, log, requests, unhandled, failed, faults>>

\* label.color.substr(1) on the colors of the model
substr1(color) ==
  CASE color = "#fbca04" -> "fbca04"
    [] color = "#d9534f" -> "d9534f"
    [] color = "d9534f" -> "9534f"
    [] color = "#5cb85c" -> "5cb85c"
    [] OTHER -> color

\* createLabel(owner, repo, label): the request it sends; idx is the position
\* of the label in the list, which tells apart the calls of two iterations
createLabel(label) ==
  Request("createLabel", FALSE, i, label.name, 0, substr1(label.color), "")

\* one iteration of for (let label of labels)
transferLabels_loop ==
  /\ Ready("tl_loop")
  /\ i <= Len(labels)
  /\ LET name == IF useLowerCase THEN toLowerCase(labels[i].name) ELSE labels[i].name
         label == [labels[i] EXCEPT !.name = name]
     IN /\ labels' = [labels EXCEPT ![i] = label]
        /\ IF Find(ghLabels, LAMBDA l : l = name) = 0
           THEN /\ Send(createLabel(label))
                /\ log' = log \cup {Log("Creating", name)}
           ELSE /\ log' = log \cup {Log("Already exists", name)}
                /\ UNCHANGED <<inflight, requests>>
  /\ i' = i + 1
  /\ UNCHANGED <<gitlab, settings, sourceRequests, hubVars, pc, procVars, j, ghIssue, tmVars, ghLabels, tiVars,
                 tmrVars, unhandled, failed, faults>>

transferLabels_return ==
  /\ Ready("tl_loop")
  /\ i > Len(labels)
  /\ pc' = "ti_ms"
  /\ i' = 0
  /\ labels' = <<>>
  /\ ghLabels' = <<>>
  /\ UNCHANGED <<gitlab, settings, sourceRequests, hubVars, procVars, j, ghIssue, tmVars, tiVars, tmrVars,
                 inflight, log, requests, unhandled, failed, faults>>

\* GitHub answers a createLabel request: 201, or 422 when the name is taken
github_createLabel(r) ==
  /\ r \in inflight
  /\ r.kind = "createLabel"
  /\ inflight' = inflight \ {r}
  /\ IF \E n \in 1..Len(hubLabels) : hubLabels[n].name = r.title
     THEN /\ failed' = failed \cup {Failure(r)}
          /\ Rejected(r, FALSE)
          /\ UNCHANGED hubLabels
     ELSE /\ hubLabels' = Append(hubLabels, [name |-> r.title, color |-> r.a])
          /\ UNCHANGED <<failed, clientVars>>
  /\ UNCHANGED <<gitlab, settings, sourceRequests, hubMilestones, hubOtherLabels, hubIssues, hubRefs, hubComments,
                 run, ended, listVars, requests, faults>>

\* -------------------------------------------------------- transferIssues

\* let milestoneData = await getAllGHMilestones(owner, repo)
transferIssues_milestones ==
  /\ Ready("ti_ms")
  /\ milestoneData' = getAllGHMilestones
  /\ pc' = "ti_fetch"
  /\ UNCHANGED <<gitlab, settings, sourceRequests, hubVars, procVars, i, j, ghIssue, tmVars, tlVars, issues,
                 ghIssues, tmrVars, inflight, log, requests, unhandled, failed, faults>>

\* let issues = await gitlab.Issues.all({projectId}); sorted by id
transferIssues_fetch ==
  /\ Ready("ti_fetch")
  /\ issues' = SortById(gitlab.issues)
  /\ sourceRequests' = sourceRequests \cup {SourceRequest("Issues.all", settings.gitlab.projectId)}
  /\ pc' = "ti_list"
  /\ UNCHANGED <<gitlab, settings, hubVars, procVars, i, j, ghIssue, tmVars, tlVars, milestoneData,
                 ghIssues, tmrVars, inflight, log, requests, unhandled, failed, faults>>

\* a listing that leaves out state: 'all' and so gets the open issues only
getAllGHIssues_openOnly ==
  LET open == SelectSeq(hubIssues, LAMBDA x : x.state = "open")
  IN [n \in 1..Len(open) |->
        [number |-> open[n].number, title |-> open[n].title,
         state |-> open[n].state, pull_request |-> open[n].pull_request]]

\* github.issues.getForRepo({state: 'all', per_page: perPage, page: page}):
\* the issues and pull requests of that page, as far as the program reads them
getForRepo(page) ==
  LET all == [n \in 1..Len(hubIssues) |->
                [number |-> hubIssues[n].number, title |-> hubIssues[n].title,
                 state |-> hubIssues[n].state, pull_request |-> hubIssues[n].pull_request]]
      last == IF page * perPage < Len(all) THEN page * perPage ELSE Len(all)
  IN SubSeq(all, (page - 1) * perPage + 1, last)

\* a getAllGHIssues that requests one page and no more
getAllGHIssues_onePage(allIssues, page) ==
  [allIssues |-> allIssues \o getForRepo(page), page |-> page]

\* the while (true) of getAllGHIssues from page on, allIssues collected so far:
\* what it collects, and the last page it requests
RECURSIVE getAllGHIssues_while(_, _)
getAllGHIssues_while(allIssues, page) ==
  LET data == getForRepo(page)
  IN IF Len(data) = 0 THEN [allIssues |-> allIssues, page |-> page]
     ELSE IF Len(data) < perPage
          THEN [allIssues |-> allIssues \o data, page |-> page]
          ELSE getAllGHIssues_while(allIssues \o data, page + 1)

\* getAllGHIssues(owner, repo): every page of the issues and pull requests
getAllGHIssues == getAllGHIssues_while(<<>>, 1).allIssues

\* issues.splice(at, 0, item), at counted from 0
splice(s, at, item) == SubSeq(s, 1, at) \o <<item>> \o SubSeq(s, at + 1, Len(s))

\* the placeholder loop, for (let i=0; i<issues.length; i++), from index k on:
\* after a splice the body's i++ and the loop's i++ both run
RECURSIVE placeholderLoop(_, _)
placeholderLoop(s, k) ==
  IF k >= Len(s) THEN s
  ELSE IF s[k + 1].iid # k + 1
       THEN placeholderLoop(splice(s, k, placeholderItem), k + 2)
       ELSE placeholderLoop(s, k + 1)

\* let ghIssues = await getAllGHIssues(...); then the placeholder loop
transferIssues_list ==
  /\ Ready("ti_list")
  /\ ghIssues' = getAllGHIssues
  /\ issues' = placeholderLoop(issues, 0)
  /\ i' = 1
  /\ pc' = "ti_loop"
  /\ UNCHANGED <<gitlab, settings, sourceRequests, hubVars, procVars, j, ghIssue, tmVars, tlVars, milestoneData,
                 tmrVars, inflight, log, requests, unhandled, failed, faults>>

\* addMigrationLine(str, item): the line that names the author, then the text;
\* the text alone for an item without author
addMigrationLine(str, item) ==
  IF item.author = "" THEN str
  ELSE <<"In GitLab by", Mention(item.author), "on", "date">> \o str

\* the callback of the replace of convertIssuesAndComments on one match
replaceMatched(matched) ==
  IF \E e \in usermap : matched = Mention(e[1])
  THEN Mention(Lookup(usermap, (CHOOSE e \in usermap : matched = Mention(e[1]))[1]))
  ELSE IF \E e \in projectmap : matched = ProjectRef(e[1])
       THEN ProjectRef(Lookup(projectmap, (CHOOSE e \in projectmap : matched = ProjectRef(e[1]))[1]))
       ELSE matched

\* str.replace(userProjectRe, callback): a new text, every match replaced
replace(str) == [k \in 1..Len(str) |-> replaceMatched(str[k])]

\* convertIssuesAndComments(str, item): with a user or project map, replace is
\* called on the text with the migration line and its result is dropped; the
\* text with the migration line is what is returned
convertIssuesAndComments(str, item) ==
  IF usermap = {} /\ projectmap = {}
  THEN addMigrationLine(str, item)
  ELSE LET strWithMigLine == addMigrationLine(str, item)
           replaced == replace(strWithMigLine)
       IN strWithMigLine

\* createIssue throws before it sends the request: the assignee of the usermap
\* is read from the undeclared name item (ReferenceError), and 'has attachment'
\* is pushed to props.labels, which is undefined for an issue without labels
\* property (TypeError)
createIssue_throws(issue) ==
  LET bodyConverted == convertIssuesAndComments(issue.description, issue)
  IN \/ /\ issue.assignee # ""
        /\ issue.assignee # githubUsername
        /\ Lookup(usermap, issue.assignee) # ""
     \/ /\ bodyConverted # <<>>
        /\ Contains(bodyConverted, <<"/uploads/">>)
        /\ ~issue.hasLabels

\* createIssue(owner, repo, milestones, issue): the request it sends; idx is
\* the source iid (0 for a placeholder), num the milestone number (0 for none)
createIssue(milestoneList, issue) ==
  LET m == IF issue.milestone = "" THEN 0
           ELSE Find(milestoneList, LAMBDA x : x.title = issue.milestone)
      bodyConverted == convertIssuesAndComments(issue.description, issue)
      assignees == IF issue.assignee # "" /\ issue.assignee = githubUsername
                   THEN <<githubUsername>> ELSE <<>>
      attached == bodyConverted # <<>> /\ Contains(bodyConverted, <<"/uploads/">>)
      labelList == IF attached THEN Append(issue.labels, "has attachment") ELSE issue.labels
  IN [Request("createIssue", TRUE, issue.iid, trim(issue.title),
              IF m = 0 THEN 0 ELSE milestoneList[m].number, "", "")
        EXCEPT !.props = [assignees |-> assignees, labels |-> labelList,
                          body |-> bodyConverted, description |-> ""]]

\* an updateIssueState that does not look at the destination issue's state
updateIssueState_sends_anyDestination(gh, issue) == issue.state = "closed"

\* updateIssueState(ghIssue, issue) sends a request
updateIssueState_sends(gh, issue) == ~(issue.state # "closed" \/ gh.state = "closed")

\* updateIssueState(ghIssue, issue): the request it sends; idx is the position
\* of the issue in the list, which tells apart the calls of two iterations
updateIssueState(gh, issue, awaited) ==
  Request("editIssue", awaited, i, "", gh.number, issue.state, "")

\* the updateIssueState of the else branch of the loop is called without await
updateExistingAwaited == FALSE

\* one iteration of for (let issue of issues): an issue found by its title is
\* only updated, another one is created by createIssueAndComments
transferIssues_loop ==
  /\ Ready("ti_loop")
  /\ i <= Len(issues)
  /\ LET issue == issues[i]
         g == Find(ghIssues, LAMBDA x : trim(x.title) = trim(issue.title))
     IN IF g = 0
        THEN IF createIssue_throws(issue)
             THEN /\ log' = log \cup {Log("Creating", issue.title),
                                      Log("Could not create issue", issue.title)}
                  /\ i' = i + 1
                  /\ UNCHANGED <<pc, inflight, requests>>
             ELSE /\ Send(createIssue(milestoneData, issue))
                  /\ log' = log \cup {Log("Creating", issue.title)}
                  /\ pc' = "ci_wait"
                  /\ UNCHANGED i
        ELSE /\ log' = log \cup {Log("Already exists", issue.title)}
             /\ IF updateIssueState_sends(ghIssues[g], issue)
                THEN Send(updateIssueState(ghIssues[g], issue, updateExistingAwaited))
                ELSE UNCHANGED <<inflight, requests>>
             /\ i' = i + 1
             /\ UNCHANGED pc
  /\ UNCHANGED <<gitlab, settings, sourceRequests, hubVars, procVars, j, ghIssue, listVars, unhandled, failed, faults>>

\* GitHub answers the create request with the new issue, numbered next
github_createIssue(r) ==
  /\ r \in inflight
  /\ r.kind = "createIssue"
  /\ inflight' = inflight \ {r}
  /\ LET new == [number |-> Len(hubIssues) + 1, title |-> r.title, state |-> "open",
                 pull_request |-> FALSE, milestone |-> r.num, iid |-> r.idx,
                 head |-> "", base |-> "", run |-> run, assignees |-> r.props.assignees,
                 labels |-> r.props.labels, body |-> r.props.body]
     IN /\ hubIssues' = Append(hubIssues, new)
        /\ IF Running /\ r.awaited
           THEN /\ ghIssue' = [number |-> new.number, state |-> new.state]
                /\ pc' = "cc_fetch"
           ELSE UNCHANGED <<ghIssue, pc>>
  /\ UNCHANGED <<gitlab, settings, sourceRequests, hubMilestones, hubLabels, hubOtherLabels, hubRefs, hubComments,
                 procVars, i, j, listVars, log, requests, unhandled, failed, faults>>

\* createIssueComments: let notes = await gitlab.IssueNotes.all(projectId, issue.iid);
\* a placeholder has no iid, and the source may answer that request or refuse it
createIssueComments_fetch ==
  /\ Ready("cc_fetch")
  /\ LET issue == issues[i]
     IN \/ /\ j' = 1
           /\ pc' = IF Len(issue.notes) = 0 THEN "us" ELSE "cc_loop"
           /\ UNCHANGED <<log, failed>>
        \/ /\ ~issue.real
           /\ log' = log \cup {Log("Could not fetch notes", issue.title)}
           /\ failed' = failed \cup {[kind |-> pc, title |-> issue.title]}
           /\ pc' = "us"
           /\ UNCHANGED j
  /\ sourceRequests' = sourceRequests \cup {SourceRequest("IssueNotes.all", settings.gitlab.projectId)}
  /\ UNCHANGED <<gitlab, settings, hubVars, procVars, i, ghIssue, listVars, inflight, requests,
                 unhandled, faults>>

\* RegExp.prototype.test for a pattern that ends in a blank and .* : the
\* tokens of pat are in text and another token follows them
ContainsThen(text, pat) ==
  \E k \in 0..(Len(text) - Len(pat) - 1) : \A m \in 1..Len(pat) : text[k + m] = pat[m]

\* RegExp.prototype.test for a pattern with .* in the middle: token a, then at
\* least gap tokens, then token b
ContainsBetween(text, a, b, gap) ==
  \E k \in 1..Len(text) : \E m \in (k + 1 + gap)..Len(text) : text[k] = a /\ text[m] = b

\* a filter that takes every note with "Status changed to" for a narration
isNarration_anyStatusChange(body) == ContainsThen(body, <<"Status changed to">>)

\* the condition under which createIssueComments does not transfer a note
isNarration(body) ==
  \/ /\ ContainsThen(body, <<"Status changed to">>)
     /\ ~Contains(body, <<"Status changed to", "closed", "by commit">>)
  \/ ContainsThen(body, <<"changed milestone to">>)
  \/ ContainsThen(body, <<"Milestone changed to">>)
  \/ ContainsThen(body, <<"Reassigned to">>)
  \/ ContainsBetween(body, "added", "labels", 1)
  \/ ContainsBetween(body, "Added ~", "label", 0)
  \/ Contains(body, <<"mentioned in issue">>)

\* github.issues.createComment({... number: ghIssue.number, body}): idx is the
\* id of the note
createComment(gh, issue, note) ==
  [Request("createComment", TRUE, note.id, issue.title, gh.number, "", "")
     EXCEPT !.props = [NoProps EXCEPT !.body = convertIssuesAndComments(note.body, note)]]

\* one iteration of for (let note of notes), notes sorted by id
createIssueComments_loop ==
  /\ Ready("cc_loop")
  /\ LET notes == SortById(issues[i].notes)
     IN IF j <= Len(notes)
        THEN IF isNarration(notes[j].body)
             THEN /\ j' = j + 1
                  /\ UNCHANGED <<pc, inflight, requests>>
             ELSE /\ Send(createComment(ghIssue, issues[i], notes[j]))
                  /\ pc' = "cc_wait"
                  /\ UNCHANGED j
        ELSE /\ pc' = "us"
             /\ UNCHANGED <<j, inflight, requests>>
  /\ UNCHANGED <<gitlab, settings, sourceRequests, hubVars, procVars, i, ghIssue, listVars, log, unhandled,
                 failed, faults>>

github_createComment(r) ==
  /\ r \in inflight
  /\ r.kind = "createComment"
  /\ inflight' = inflight \ {r}
  /\ hubComments' = Append(hubComments, [number |-> r.num, note |-> r.idx, body |-> r.props.body])
  /\ IF Running /\ r.awaited
     THEN /\ j' = j + 1
          /\ pc' = "cc_loop"
     ELSE UNCHANGED <<j, pc>>
  /\ UNCHANGED <<gitlab, settings, sourceRequests, hubMilestones, hubLabels, hubOtherLabels, hubIssues, hubRefs,
                 procVars, i, ghIssue, listVars, log, requests, unhandled, failed, faults>>

\* createIssueAndComments: await updateIssueState(ghIssue, issue), then the next issue
createIssueAndComments_update ==
  /\ Ready("us")
  /\ IF updateIssueState_sends(ghIssue, issues[i])
     THEN /\ Send(updateIssueState(ghIssue, issues[i], TRUE))
          /\ pc' = "us_wait"
          /\ UNCHANGED <<i, j, ghIssue>>
     ELSE /\ pc' = "ti_loop"
          /\ i' = i + 1
          /\ j' = 0
          /\ ghIssue' = NoIssue
          /\ UNCHANGED <<inflight, requests>>
  /\ UNCHANGED <<gitlab, settings, sourceRequests, hubVars, procVars, listVars, log, unhandled, failed, faults>>

\* GitHub answers github.issues.edit({number, state})
github_editIssue(r) ==
  /\ r \in inflight
  /\ r.kind = "editIssue"
  /\ inflight' = inflight \ {r}
  /\ hubIssues' = [hubIssues EXCEPT ![r.num].state = r.a]
  /\ IF Running /\ r.awaited
     THEN /\ pc' = "ti_loop"
          /\ i' = i + 1
          /\ j' = 0
          /\ ghIssue' = NoIssue
     ELSE UNCHANGED <<pc, i, j, ghIssue>>
  /\ UNCHANGED <<gitlab, settings, sourceRequests, hubMilestones, hubLabels, hubOtherLabels, hubRefs, hubComments,
                 procVars, listVars, log, requests, unhandled, failed, faults>>

transferIssues_return ==
  /\ Ready("ti_loop")
  /\ i > Len(issues)
  /\ pc' = "tmr_fetch"
  /\ i' = 0
  /\ milestoneData' = <<>>
  /\ issues' = <<>>
  /\ ghIssues' = <<>>
  /\ UNCHANGED <<gitlab, settings, sourceRequests, hubVars, procVars, j, ghIssue, tmVars, tlVars, tmrVars,
                 inflight, log, requests, unhandled, failed, faults>>

\* ------------------------------------------------- transferMergeRequests

\* let mergeRequests = await gitlab.MergeRequests.all({projectId: 188}); sorted by id
transferMergeRequests_fetch ==
  /\ Ready("tmr_fetch")
  /\ mergeRequests' = SortById(gitlab.mergeRequests)
  /\ sourceRequests' = sourceRequests \cup {SourceRequest("MergeRequests.all", "188")}
  /\ pc' = "tmr_list"
  /\ UNCHANGED <<gitlab, settings, hubVars, procVars, i, j, ghIssue, tmVars, tlVars, tiVars,
                 ghPullRequests, inflight, log, requests, unhandled, failed, faults>>

\* getAllGHPullRequests: the listed issues that carry pull_request
getAllGHPullRequests ==
  LET all == getAllGHIssues
      prs == SelectSeq(all, LAMBDA x : x.pull_request)
  IN [n \in 1..Len(prs) |-> [number |-> prs[n].number, title |-> prs[n].title]]

\* let ghPullRequests = await getAllGHPullRequests(owner, repo)
transferMergeRequests_list ==
  /\ Ready("tmr_list")
  /\ ghPullRequests' = getAllGHPullRequests
  /\ i' = 1
  /\ pc' = "tmr_loop"
  /\ UNCHANGED <<gitlab, settings, sourceRequests, hubVars, procVars, j, ghIssue, tmVars, tlVars, tiVars,
                 mergeRequests, inflight, log, requests, unhandled, failed, faults>>

\* early returns that do not look at the state of the merge request
createPRAndComments_skips_anyState(mr) == mr.iid # 1

\* the two early returns of createPRAndComments
createPRAndComments_skips(mr) ==
  \/ mr.iid # 1
  \/ (mr.state # "merged" /\ mr.state # "open")

\* 'MR'+mr.iid+'-'+branch+'-'+end on the branches of the model
branchName(mr, branch, end) ==
  CASE branch = "master" /\ end = "base" -> <<"MR1-master-base", "MR2-master-base", "MR3-master-base">>[mr.iid]
    [] branch = "feature" /\ end = "head" -> <<"MR1-feature-head", "MR2-feature-head", "MR3-feature-head">>[mr.iid]
    [] branch = "master" /\ end = "head" -> <<"MR1-master-head", "MR2-master-head", "MR3-master-head">>[mr.iid]
    [] OTHER -> <<"MR1-feature-base", "MR2-feature-base", "MR3-feature-base">>[mr.iid]
baseRef(mr) == branchName(mr, mr.target_branch, "base")
headRef(mr) == branchName(mr, mr.source_branch, "head")

\* createGHBranch(owner, repo, name, sha): the request it sends; b tells the
\* continuation which of the two branches it is
createGHBranch(name, sha, which) ==
  Request("createReference", TRUE, 0, name, 0, sha, which)

\* commitInfo.parent_ids.filter(sha => sha != mr.sha), then the only one or null
parentCommit(mr) ==
  LET parentCommits == SelectSeq(mr.parent_ids, LAMBDA sha : sha # mr.sha)
  IN IF Len(parentCommits) = 1 THEN parentCommits[1] ELSE ""

\* createPR(owner, repo, mr, head, base): the request it sends
createPR(mr, head, base) == Request("createPR", TRUE, mr.iid, mr.title, 0, head, base)

\* one iteration of for (let mr of mergeRequests), up to the first await of
\* createPRAndComments
transferMergeRequests_loop ==
  /\ Ready("tmr_loop")
  /\ i <= Len(mergeRequests)
  /\ LET mr == mergeRequests[i]
     IN IF Find(ghPullRequests, LAMBDA pr : pr.title = mr.title) = 0
        THEN /\ log' = log \cup {Log("Creating PR", mr.title)}
             /\ IF createPRAndComments_skips(mr)
                THEN /\ i' = i + 1
                     /\ UNCHANGED <<pc, inflight, requests>>
                ELSE /\ Send(createGHBranch(headRef(mr), mr.sha, "head"))
                     /\ pc' = "pr_head"
                     /\ UNCHANGED i
        ELSE /\ log' = log \cup {Log("Already exists as PR", mr.title)}
             /\ i' = i + 1
             /\ UNCHANGED <<pc, inflight, requests>>
  /\ UNCHANGED <<gitlab, settings, sourceRequests, hubVars, procVars, j, ghIssue, listVars, unhandled, failed, faults>>

\* GitHub answers github.gitdata.createReference: 201, or 422 when the
\* reference exists or the sha is none
github_createReference(r) ==
  /\ r \in inflight
  /\ r.kind = "createReference"
  /\ inflight' = inflight \ {r}
  /\ LET exists == \E x \in hubRefs : x.ref = r.title
     IN IF exists \/ r.a = ""
        THEN /\ failed' = failed \cup {Failure(r)}
             /\ Rejected(r, exists)
             /\ UNCHANGED hubRefs
        ELSE /\ hubRefs' = hubRefs \cup {[ref |-> r.title, sha |-> r.a]}
             /\ IF Running /\ r.awaited
                THEN pc' = IF r.b = "head" THEN "pr_commit" ELSE "pr_create"
                ELSE UNCHANGED pc
             /\ UNCHANGED <<failed, i, j, ghIssue, log, unhandled, status, exitCode>>
  /\ UNCHANGED <<gitlab, settings, sourceRequests, hubMilestones, hubLabels, hubOtherLabels, hubIssues, hubComments,
                 run, ended, listVars, requests, faults>>

\* let commitInfo = await gitlab.Commits.show(projectId, mr.merge_commit_sha),
\* then createGHBranch(owner, repo, baseRef, parentCommit)
createPRAndComments_base ==
  /\ Ready("pr_commit")
  /\ LET mr == mergeRequests[i]
     IN Send(createGHBranch(baseRef(mr), parentCommit(mr), "base"))
  /\ sourceRequests' = sourceRequests \cup {SourceRequest("Commits.show", settings.gitlab.projectId)}
  /\ pc' = "pr_base"
  /\ UNCHANGED <<gitlab, settings, hubVars, procVars, i, j, ghIssue, listVars, log, unhandled,
                 failed, faults>>

\* let ghPRData = await createPR(owner, repo, mr, headRef, baseRef)
createPRAndComments_createPR ==
  /\ Ready("pr_create")
  /\ LET mr == mergeRequests[i]
     IN Send(createPR(mr, headRef(mr), baseRef(mr)))
  /\ pc' = "pr_wait"
  /\ UNCHANGED <<gitlab, settings, sourceRequests, hubVars, procVars, i, j, ghIssue, listVars, log, unhandled,
                 failed, faults>>

\* GitHub answers github.pullRequests.create: 201 and the pull request takes
\* the next issue number, or 422 when head or base is no branch
github_createPR(r) ==
  /\ r \in inflight
  /\ r.kind = "createPR"
  /\ inflight' = inflight \ {r}
  /\ IF (\E x \in hubRefs : x.ref = r.a) /\ (\E x \in hubRefs : x.ref = r.b)
     THEN /\ hubIssues' = Append(hubIssues,
               [number |-> Len(hubIssues) + 1, title |-> r.title, state |-> "open",
                pull_request |-> TRUE, milestone |-> 0, iid |-> r.idx,
                head |-> r.a, base |-> r.b, run |-> run, assignees |-> <<>>,
                labels |-> <<>>, body |-> <<>>])
          /\ IF Running /\ r.awaited
             THEN /\ pc' = "tmr_loop"
                  /\ i' = i + 1
             ELSE UNCHANGED <<pc, i>>
          /\ UNCHANGED <<failed, j, ghIssue, log, unhandled, status, exitCode>>
     ELSE /\ failed' = failed \cup {Failure(r)}
          /\ Rejected(r, FALSE)
          /\ UNCHANGED hubIssues
  /\ UNCHANGED <<gitlab, settings, sourceRequests, hubMilestones, hubLabels, hubOtherLabels, hubRefs, hubComments,
                 run, ended, listVars, requests, faults>>

transferMergeRequests_return ==
  /\ Ready("tmr_loop")
  /\ i > Len(mergeRequests)
  /\ pc' = "end_rate"
  /\ i' = 0
  /\ mergeRequests' = <<>>
  /\ ghPullRequests' = <<>>
  /\ UNCHANGED <<gitlab, settings, sourceRequests, hubVars, procVars, j, ghIssue, tmVars, tlVars, tiVars,
                 inflight, log, requests, unhandled, failed, faults>>

\* result = await github.misc.getRateLimit(), after the migrators: migrate returns
migrate_end ==
  /\ Ready("end_rate")
  /\ pc' = "returned"
  /\ UNCHANGED <<gitlab, settings, sourceRequests, hubVars, procVars, i, j, ghIssue, listVars, inflight, log,
                 requests, unhandled, failed, faults>>

\* the process ends by itself once nothing is pending
process_exit ==
  /\ Running
  /\ pc = "returned"
  /\ inflight = {}
  /\ status' = "done"
  /\ exitCode' = 0
  /\ UNCHANGED <<gitlab, settings, sourceRequests, hubVars, pc, run, ended, i, j, ghIssue, listVars, inflight, log,
                 requests, unhandled, failed, faults>>

\* ----------------------------------------------------------------- faults

\* a fault may still be injected
MayFail == Running /\ faults < MaxFaults

\* a call that migrate or a migrator awaits outside any try block fails: the
\* promise of migrate() is rejected and nothing handles it; the runtime ends the
\* process with code 1 or, an older one, lets it end with code 0
read_fails_uncaught ==
  /\ MayFail
  /\ ~Awaiting
  /\ pc \in {"start", "tm_fetch", "tl_fetch", "ti_fetch", "ti_list", "tmr_fetch", "end_rate"}
  /\ pc = "start" => settings.gitlab.projectID # "null"
  /\ faults' = faults + 1
  /\ failed' = failed \cup {[kind |-> pc, title |-> ""]}
  /\ unhandled' = unhandled \cup {pc}
  /\ status' = "crashed"
  /\ exitCode' \in {0, 1}
  /\ sourceRequests' =
       sourceRequests \cup
         CASE pc = "tm_fetch" -> {SourceRequest("ProjectMilestones.all", settings.gitlab.projectId)}
           [] pc = "tl_fetch" -> {SourceRequest("Labels.all", settings.gitlab.projectId)}
           [] pc = "ti_fetch" -> {SourceRequest("Issues.all", settings.gitlab.projectId)}
           [] pc = "tmr_fetch" -> {SourceRequest("MergeRequests.all", "188")}
           [] OTHER -> {}
  /\ UNCHANGED <<gitlab, settings, hubVars, pc, run, ended, i, j, ghIssue, listVars, inflight, log,
                 requests>>

\* the catch blocks of getAllGHMilestones, getAllGHLabelNames and
\* getAllGHPullRequests: console.error and process.exit(1)
list_fails_exit ==
  /\ MayFail
  /\ ~Awaiting
  /\ pc \in {"tm_list", "tl_list", "ti_ms", "tmr_list"}
  /\ faults' = faults + 1
  /\ failed' = failed \cup {[kind |-> pc, title |-> ""]}
  /\ log' = log \cup {Log(CASE pc \in {"tm_list", "ti_ms"} -> "Could not access all GitHub milestones"
                            [] pc = "tl_list" -> "Could not access all GitHub label names"
                            [] OTHER -> "Could not access all GitHub pull requests!", "")}
  /\ status' = "exited"
  /\ exitCode' = 1
  /\ UNCHANGED <<gitlab, settings, sourceRequests, hubVars, pc, run, ended, i, j, ghIssue, listVars, inflight,
                 requests, unhandled>>

\* the catch block of createIssueComments
notes_fail ==
  /\ MayFail
  /\ ~Awaiting
  /\ pc = "cc_fetch"
  /\ faults' = faults + 1
  /\ failed' = failed \cup {[kind |-> pc, title |-> issues[i].title]}
  /\ log' = log \cup {Log("Could not fetch notes", issues[i].title)}
  /\ pc' = "us"
  /\ sourceRequests' = sourceRequests \cup {SourceRequest("IssueNotes.all", settings.gitlab.projectId)}
  /\ UNCHANGED <<gitlab, settings, hubVars, procVars, i, j, ghIssue, listVars, inflight, requests,
                 unhandled>>

\* gitlab.Commits.show fails inside createPRAndComments: caught by the loop
commit_fails ==
  /\ MayFail
  /\ ~Awaiting
  /\ pc = "pr_commit"
  /\ faults' = faults + 1
  /\ failed' = failed \cup {[kind |-> pc, title |-> mergeRequests[i].title]}
  /\ transferMergeRequests_catch
  /\ sourceRequests' = sourceRequests \cup {SourceRequest("Commits.show", settings.gitlab.projectId)}
  /\ UNCHANGED <<gitlab, settings, hubVars, run, ended, listVars, inflight, requests>>

\* a request to GitHub fails (the network, a timeout, a 4xx or 5xx answer)
github_fails(r) ==
  /\ MayFail
  /\ r \in inflight
  /\ inflight' = inflight \ {r}
  /\ faults' = faults + 1
  /\ failed' = failed \cup {Failure(r)}
  /\ Rejected(r, FALSE)
  /\ UNCHANGED <<gitlab, settings, sourceRequests, hubVars, run, ended, listVars, requests>>

\* the process is killed
abort ==
  /\ MayFail
  /\ faults' = faults + 1
  /\ status' = "aborted"
  /\ exitCode' = 130
  /\ UNCHANGED <<gitlab, settings, sourceRequests, hubVars, pc, run, ended, i, j, ghIssue, listVars, inflight, log,
                 requests, unhandled, failed>>

\* the user runs the process again; what the dead process had in flight and
\* GitHub has not answered is lost
restart ==
  /\ ~Running
  /\ run < MaxRuns
  /\ run' = run + 1
  /\ ended' = Append(ended, [status |-> status, failed |-> failed, faults |-> faults])
  /\ status' = "running"
  /\ exitCode' = -1
  /\ pc' = "start"
  /\ i' = 0
  /\ j' = 0
  /\ ghIssue' = NoIssue
  /\ milestones' = <<>>
  /\ ghMilestones' = <<>>
  /\ labels' = <<>>
  /\ ghLabels' = <<>>
  /\ milestoneData' = <<>>
  /\ issues' = <<>>
  /\ ghIssues' = <<>>
  /\ mergeRequests' = <<>>
  /\ ghPullRequests' = <<>>
  /\ inflight' = {}
  /\ log' = {}
  /\ unhandled' = {}
  /\ failed' = {}
  /\ sourceRequests' = {}
  /\ UNCHANGED <<gitlab, settings, hubVars, requests, faults>>

\* ------------------------------------------------------------------- Next

Steps ==
  \/ listProjects
  \/ migrate_begin
  \/ transferMilestones_fetch
  \/ transferMilestones_list
  \/ transferMilestones_loop
  \/ transferMilestones_return
  \/ transferLabels_fetch
  \/ transferLabels_list
  \/ transferLabels_loop
  \/ transferLabels_return
  \/ transferIssues_milestones
  \/ transferIssues_fetch
  \/ transferIssues_list
  \/ transferIssues_loop
  \/ createIssueComments_fetch
  \/ createIssueComments_loop
  \/ createIssueAndComments_update
  \/ transferIssues_return
  \/ transferMergeRequests_fetch
  \/ transferMergeRequests_list
  \/ transferMergeRequests_loop
  \/ createPRAndComments_base
  \/ createPRAndComments_createPR
  \/ transferMergeRequests_return
  \/ migrate_end
  \/ process_exit
  \/ \E r \in inflight : github_createMilestone(r)
  \/ \E r \in inflight : github_createLabel(r)
  \/ \E r \in inflight : github_createIssue(r)
  \/ \E r \in inflight : github_createComment(r)
  \/ \E r \in inflight : github_editIssue(r)
  \/ \E r \in inflight : github_createReference(r)
  \/ \E r \in inflight : github_createPR(r)
  \/ restart

Faults ==
  \/ read_fails_uncaught
  \/ list_fails_exit
  \/ notes_fail
  \/ commit_fails
  \/ \E r \in inflight : github_fails(r)
  \/ abort

Next == Steps \/ Faults

Spec == Init /\ [][Next]_vars

\* ------------------------------------- the listing of a large destination

\* a destination issue that exists before the run
HubIssue(n) ==
  [number |-> n, title |-> IssueTitles[((n - 1) % Len(IssueTitles)) + 1], state |-> "open",
   pull_request |-> FALSE, milestone |-> 0, iid |-> 0, head |-> "", base |-> "", run |-> 0,
   assignees |-> <<>>, labels |-> <<>>, body |-> <<>>]

\* transferIssues is about to list a destination of up to MaxHubIssues issues;
\* the source project is empty
InitListing ==
  /\ gitlab = [milestones |-> <<>>, labels |-> <<>>, issues |-> <<>>, mergeRequests |-> <<>>]
  /\ settings = [gitlab |-> [projectID |-> "undefined", projectId |-> "5"]]
  /\ sourceRequests = {SourceRequest("ProjectMilestones.all", "5"), SourceRequest("Labels.all", "5"),
                       SourceRequest("Issues.all", "5")}
  /\ hubMilestones = <<>>
  /\ hubLabels = <<>>
  /\ hubOtherLabels = 0
  /\ hubIssues \in {[n \in 1..k |-> HubIssue(n)] : k \in 0..MaxHubIssues}
  /\ hubRefs = {}
  /\ hubComments = <<>>
  /\ pc = "ti_list"
  /\ status = "running"
  /\ exitCode = -1
  /\ run = 1
  /\ ended = <<>>
  /\ i = 0
  /\ j = 0
  /\ milestones = <<>>
  /\ ghMilestones = <<>>
  /\ labels = <<>>
  /\ ghLabels = <<>>
  /\ milestoneData = <<>>
  /\ issues = <<>>
  /\ ghIssues = <<>>
  /\ ghIssue = NoIssue
  /\ mergeRequests = <<>>
  /\ ghPullRequests = <<>>
  /\ inflight = {}
  /\ log = {}
  /\ requests = {}
  /\ unhandled = {}
  /\ failed = {}
  /\ faults = 0

NextListing == transferIssues_list

SpecListing == InitListing /\ [][NextListing]_vars

\* ----------------------------------------------------------------- claims

CreateKinds == {"createMilestone", "createLabel", "createIssue", "createPR"}

\* the first run ended by itself and none of its remote calls failed
FirstRunClean == run = 2 /\ ended[1].status = "done" /\ ended[1].failed = {}

\* the create requests of the second run
SecondRunCreates == {q \in requests : q.run = 2 /\ q.kind \in CreateKinds}

\* every label and every milestone of the destination is on the one page listed
ListingsComplete ==
  /\ hubOtherLabels + Len(hubLabels) <= LabelsPerPage
  /\ Len(hubMilestones) <= MilestonesPerPage

C2_NumberingAligned ==
  (run = 1 /\ \A f \in failed : f.kind # "createIssue") =>
    \A n \in 1..Len(hubIssues) :
      (~hubIssues[n].pull_request /\ hubIssues[n].iid > 0) =>
        hubIssues[n].number = hubIssues[n].iid

Iids(s) == {s[n].iid : n \in 1..Len(s)}
MaxOf(S) == IF S = {} THEN 0 ELSE CHOOSE x \in S : \A y \in S : y <= x

\* list s holds at every position p up to the largest iid the source issue
\* with iid p, or a placeholder where the source has none
GapFilled(s, source) ==
  /\ Len(s) = MaxOf(Iids(source))
  /\ \A p \in 1..Len(s) :
       IF p \in Iids(source)
       THEN \E n \in 1..Len(source) : source[n].iid = p /\ s[p] = source[n]
       ELSE s[p] = placeholderItem

\* C3: after the placeholder loop the list holds, at every position p up to
\* the largest source iid, the source issue p or else a placeholder.
C3_GapFilling ==
  pc \in {"ti_loop", "ci_wait", "cc_fetch", "cc_loop", "cc_wait", "us", "us_wait"} =>
    GapFilled(issues, SortById(gitlab.issues))

\* C4: at most one write request to the destination is in flight at any time.
C4_OneWriteInFlight == Running => Cardinality(inflight) <= 1

\* the source issue of iid n
SourceIssue(n) == CHOOSE x \in {gitlab.issues[k] : k \in 1..Len(gitlab.issues)} : x.iid = n

\* every issue created in this run from a source issue whose milestone this
\* run migrated carries a milestone
IssuesCarryMigratedMilestone ==
  \A n \in 1..Len(hubIssues) :
    (/\ ~hubIssues[n].pull_request
     /\ hubIssues[n].iid > 0
     /\ hubIssues[n].run = run
     /\ \E q \in requests : /\ q.run = run
                            /\ q.kind = "createMilestone"
                            /\ q.title = SourceIssue(hubIssues[n].iid).milestone)
    => hubIssues[n].milestone # 0

\* C5: when transferIssues lists the destination milestones, no milestone
\* creation of this run is still in flight, and so every issue created from a
\* source issue whose milestone was migrated carries that milestone.
C5_MilestonesBeforeIssues ==
  [][/\ transferIssues_milestones => \A r \in inflight : r.kind # "createMilestone"
     /\ IssuesCarryMigratedMilestone']_vars

Count(s, P(_)) == Cardinality({n \in 1..Len(s) : P(s[n])})

\* every item that one uninterrupted run creates is in the destination exactly
\* once: the milestones, the labels, the issues and placeholders of the list
\* the run walks, and the pull requests of the merge requests it does not skip
EveryItemOnce ==
  /\ \A n \in 1..Len(gitlab.milestones) :
       Count(hubMilestones, LAMBDA m : m.title = gitlab.milestones[n].title) = 1
  /\ \A n \in 1..Len(gitlab.labels) :
       Count(hubLabels, LAMBDA l : l.name = toLowerCase(gitlab.labels[n].name)) = 1
  /\ \A p \in Iids(gitlab.issues) :
       Count(hubIssues, LAMBDA x : ~x.pull_request /\ x.iid = p) = 1
  /\ Count(hubIssues, LAMBDA x : ~x.pull_request)
       = Len(placeholderLoop(SortById(gitlab.issues), 0))
  /\ \A n \in 1..Len(gitlab.mergeRequests) :
       ~createPRAndComments_skips(gitlab.mergeRequests[n]) =>
         Count(hubIssues, LAMBDA x : x.pull_request /\ x.iid = gitlab.mergeRequests[n].iid) = 1

\* C6: when a run was aborted and the process run again to its end without a
\* failure, the destination holds every item of the source exactly once: what
\* the aborted run had not created the second run created, and nothing twice.
C6_Resumable ==
  (/\ run = 2
   /\ ended[1].status = "aborted"
   /\ faults = ended[1].faults
   /\ status = "done") => EveryItemOnce

CreationKinds == {"createMilestone", "createLabel", "createIssue", "createComment",
                  "createReference", "createPR"}

CouldNotMessages == {"Could not create milestone", "Could not create label",
                     "Could not create issue", "Could not create PR",
                     "Could not create branch", "Branch already exists"}

\* C7: a failed creation of a milestone, label, issue, comment, branch or pull
\* request is caught and logged with the item's title, is never an unhandled
\* rejection, and does not end the run.
C7_FailuresCaughtAndLogged ==
  \A f \in failed :
    f.kind \in CreationKinds =>
      /\ f.kind \notin unhandled
      /\ \E l \in log : l.msg \in CouldNotMessages /\ l.key = f.title
      /\ status # "crashed"

ListingCalls == {"tm_list", "tl_list", "ti_ms", "ti_list", "tmr_list"}

CouldNotAccessMessages == {"Could not access all GitHub milestones",
                           "Could not access all GitHub label names",
                           "Could not access all GitHub pull requests!",
                           "Could not access all GitHub issues"}

ListingFailed == \E f \in failed : f.kind \in ListingCalls

\* C8: when a listing of the destination's milestones, labels, issues or pull
\* requests fails, the failure is logged, the process ends with exit code 1,
\* and no write request is issued afterwards.
C8_ListingFailureFatal ==
  [][/\ ListingFailed' => (exitCode' = 1 /\ \E l \in log' : l.msg \in CouldNotAccessMessages)
     /\ ListingFailed => requests' \subseteq requests]_vars

\* C9: for a source issue found in the destination by its title, the one
\* request sent is the update to closed, and it is sent exactly when the source
\* issue is closed and the listed destination issue is not; nothing is created
\* or commented, and no update sets another state than closed.
C9_ClosedOneDirection ==
  [][(transferIssues_loop
      /\ Find(ghIssues, LAMBDA x : trim(x.title) = trim(issues[i].title)) # 0) =>
       LET g == Find(ghIssues, LAMBDA x : trim(x.title) = trim(issues[i].title))
           sent == inflight' \ inflight
       IN /\ \A r \in sent : /\ r.kind = "editIssue"
                              /\ r.num = ghIssues[g].number
                              /\ r.a = "closed"
          /\ (sent # {}) <=> (issues[i].state = "closed" /\ ghIssues[g].state # "closed")
          /\ pc' = "ti_loop"]_vars

\* C9's case: the update of an issue found by its title is in flight
C9_Witness == \E r \in inflight : r.kind = "editIssue" /\ ~r.awaited

\* the other parent of a merge commit of two parents, one the head
OtherParent(mr) ==
  IF Len(mr.parent_ids) = 2 /\ mr.sha \in {mr.parent_ids[1], mr.parent_ids[2]}
  THEN IF mr.parent_ids[1] = mr.sha THEN mr.parent_ids[2] ELSE mr.parent_ids[1]
  ELSE ""

Migrated(mr) ==
  /\ [ref |-> headRef(mr), sha |-> mr.sha] \in hubRefs
  /\ \E x \in hubRefs : x.ref = baseRef(mr)
  /\ (mr.state = "merged" /\ OtherParent(mr) # "") =>
       [ref |-> baseRef(mr), sha |-> OtherParent(mr)] \in hubRefs
  /\ \E n \in 1..Len(hubIssues) :
       /\ hubIssues[n].pull_request
       /\ hubIssues[n].title = mr.title
       /\ hubIssues[n].head = headRef(mr)
       /\ hubIssues[n].base = baseRef(mr)

\* C10: after a first run in which no remote call failed, every source merge
\* request in state merged or open has its head branch, its base branch and
\* its pull request in the destination.
C10_EligibleMergeRequestsMigrated ==
  (run = 1 /\ status = "done" /\ failed = {}) =>
    \A n \in 1..Len(gitlab.mergeRequests) :
      gitlab.mergeRequests[n].state \in {"merged", "open"} =>
        Migrated(gitlab.mergeRequests[n])

\* the requests issued, in any run, for merge request mr
RequestsFor(mr) ==
  {q \in requests :
     \/ q.kind = "createReference" /\ q.title \in {headRef(mr), baseRef(mr)}
     \/ q.kind = "createPR" /\ q.title = mr.title}

\* C11: for a source merge request whose state is neither merged nor open, no
\* request to create a branch and no request to create a pull request is
\* ever issued.
C11_IneligibleLeaveNoTrace ==
  \A n \in 1..Len(gitlab.mergeRequests) :
    gitlab.mergeRequests[n].state \notin {"merged", "open"} =>
      RequestsFor(gitlab.mergeRequests[n]) = {}

\* C11's case: a run has ended whose loop met merge request 1, locked or closed
C11_Witness ==
  /\ status = "done"
  /\ \E n \in 1..Len(gitlab.mergeRequests) :
       /\ gitlab.mergeRequests[n].iid = 1
       /\ gitlab.mergeRequests[n].state \in {"locked", "closed"}
  /\ Log("Creating PR", "MR1") \in log

\* the assignees that the mapping of the assignee gives an issue
MappedAssignees(issue) ==
  IF issue.assignee = "" THEN <<>>
  ELSE IF issue.assignee = githubUsername THEN <<githubUsername>>
  ELSE IF Lookup(usermap, issue.assignee) # "" THEN <<Lookup(usermap, issue.assignee)>>
  ELSE <<>>

\* C12: after a first run on a destination without issues in which no remote
\* call failed, every source issue that has an assignee is an issue of the
\* destination, assigned to the migration user when that is its assignee, to
\* the usermap's user when its assignee is a key of the usermap, and to nobody
\* otherwise.
C12_AssigneeMapping ==
  (run = 1 /\ status = "done" /\ failed = {}) =>
    \A n \in 1..Len(gitlab.issues) :
      gitlab.issues[n].assignee # "" =>
        \E m \in 1..Len(hubIssues) :
          /\ ~hubIssues[m].pull_request
          /\ hubIssues[m].iid = gitlab.issues[n].iid
          /\ hubIssues[m].assignees = MappedAssignees(gitlab.issues[n])

\* the body is the narration of a change of state, "Status changed to <state>"
StatusNarration(body) == Len(body) = 2 /\ body[1] = "Status changed to"

\* the body is "Status changed to closed by commit <sha>"
ClosedByCommit(body) ==
  Len(body) = 4 /\ SubSeq(body, 1, 3) = <<"Status changed to", "closed", "by commit">>

\* the notes of the source issue that destination issue number num was created from
SourceNotes(num) ==
  IF hubIssues[num].pull_request \/ hubIssues[num].iid = 0 THEN {}
  ELSE LET issue == SourceIssue(hubIssues[num].iid)
       IN {issue.notes[k] : k \in 1..Len(issue.notes)}

\* C13: no comment of the destination is made from a source note whose body is
\* "Status changed to <state>"; and after a first run in which no remote call
\* failed, every note "Status changed to closed by commit <sha>" of a created
\* issue is a comment of that issue.
C13_NarrationFiltered ==
  /\ \A k \in 1..Len(hubComments) :
       \A note \in SourceNotes(hubComments[k].number) :
         note.id = hubComments[k].note => ~StatusNarration(note.body)
  /\ (run = 1 /\ status = "done" /\ failed = {}) =>
       \A num \in 1..Len(hubIssues) :
         ~hubIssues[num].pull_request =>
           \A note \in SourceNotes(num) :
             ClosedByCommit(note.body) =>
               \E k \in 1..Len(hubComments) :
                 hubComments[k].number = num /\ hubComments[k].note = note.id

\* C13's case: a run has ended that created an issue one of whose notes is a
\* plain narration and another one a closing by a commit, the latter a comment
C13_Witness ==
  /\ run = 1 /\ status = "done" /\ failed = {}
  /\ \E num \in 1..Len(hubIssues) :
       /\ \E note \in SourceNotes(num) : StatusNarration(note.body)
       /\ \E note \in SourceNotes(num) :
            /\ ClosedByCommit(note.body)
            /\ \E k \in 1..Len(hubComments) :
                 hubComments[k].number = num /\ hubComments[k].note = note.id

\* the elements of a sequence
Range(s) == {s[k] : k \in 1..Len(s)}

\* C14: after a first run on a destination without issues in which no remote
\* call failed, every source issue whose converted body contains "/uploads/"
\* is an issue of the destination that carries the label "has attachment",
\* also when the source issue has no labels.
C14_AttachmentFlagged ==
  (run = 1 /\ status = "done" /\ failed = {}) =>
    \A n \in 1..Len(gitlab.issues) :
      Contains(convertIssuesAndComments(gitlab.issues[n].description, gitlab.issues[n]),
               <<"/uploads/">>) =>
        \E m \in 1..Len(hubIssues) :
          /\ ~hubIssues[m].pull_request
          /\ hubIssues[m].iid = gitlab.issues[n].iid
          /\ "has attachment" \in Range(hubIssues[m].labels)

\* the color without its leading '#', whole when it has none
StripHash(color) ==
  CASE color = "#fbca04" -> "fbca04"
    [] color = "#d9534f" -> "d9534f"
    [] color = "#5cb85c" -> "5cb85c"
    [] OTHER -> color

\* the labels that transferLabels walks: the source labels and 'has attachment'
WalkedLabels == Range(gitlab.labels) \cup {hasAttachmentLabel}

\* C15: every request to create a label, and every label created, carries the
\* color of a source label of that name without its leading '#', whole when
\* the color has none.
C15_ColorNormalized ==
  /\ \A r \in inflight :
       r.kind = "createLabel" =>
         \E l \in WalkedLabels : toLowerCase(l.name) = r.title /\ r.a = StripHash(l.color)
  /\ \A n \in 1..Len(hubLabels) :
       \E l \in WalkedLabels :
         toLowerCase(l.name) = hubLabels[n].name /\ hubLabels[n].color = StripHash(l.color)

\* the text the Text Transformer is to return for str of item: the migration
\* line added and every mapped mention and project reference rewritten
Rewritten(str, item) == replace(addMigrationLine(str, item))

\* C16: with a user map and a project map, the body of every request to create
\* an issue is the source description with the migration line and with every
\* mapped '@user' and 'project#' token rewritten, and the body of every request
\* to create a comment is the source note rewritten in the same way.
C16_BodiesRewritten ==
  (usermap # {} \/ projectmap # {}) =>
    \A r \in inflight :
      /\ r.kind = "createIssue" =>
           \E n \in 1..Len(issues) :
             /\ issues[n].iid = r.idx
             /\ r.props.body = Rewritten(issues[n].description, issues[n])
      /\ r.kind = "createComment" =>
           \E n \in 1..Len(issues) : \E k \in 1..Len(issues[n].notes) :
             /\ issues[n].title = r.title
             /\ issues[n].notes[k].id = r.idx
             /\ r.props.body = Rewritten(issues[n].notes[k].body, issues[n].notes[k])

\* the project identifier of the settings, under either key; "none" for none
ConfiguredProject ==
  IF settings.gitlab.projectId # "undefined" THEN settings.gitlab.projectId
  ELSE IF settings.gitlab.projectID \notin {"null", "undefined"} THEN settings.gitlab.projectID
  ELSE "none"

ListingMessages ==
  {Log("Select which project ID should be transported to github", ""),
   Log("An Error occured while fetching all projects", "")}

\* C17: without a configured project identifier the run sends no request of the
\* migration, to the source or to the destination; with one it does not list
\* the projects, and every request it sends to the source names the configured
\* project identifier.
C17_ModeAndTarget ==
  IF ConfiguredProject = "none"
  THEN sourceRequests = {} /\ requests = {} /\ inflight = {}
  ELSE /\ log \cap ListingMessages = {}
       /\ \A q \in sourceRequests : q.projectId = ConfiguredProject

\* where migrate() stands when it fetches a source collection
SourceFetches == {"tm_fetch", "tl_fetch", "ti_fetch", "tmr_fetch", "cc_fetch"}

\* C18: with the project configured under the key that migrate reads, a failed
\* fetch of the source milestones, labels, issues, merge requests or notes is
\* handled inside its migrator: its rejection is not left unhandled and it
\* does not end the run.
C18_SourceFetchErrorsContained ==
  settings.gitlab.projectId # "undefined" =>
    \A f \in failed :
      f.kind \in SourceFetches => f.kind \notin unhandled /\ status # "crashed"

\* the source notes of destination issue num that are to become comments:
\* all but the narrations of a change of state
Transferable(num) == {note \in SourceNotes(num) : ~StatusNarration(note.body)}

\* the ids of the source notes that are comments of destination issue num
Posted(num) == {hubComments[k].note : k \in {m \in 1..Len(hubComments) : hubComments[m].number = num}}

\* the destination issues, placeholders included
DestinationIssues == {num \in 1..Len(hubIssues) : ~hubIssues[num].pull_request}

\* the destination issues that were created from a source issue
CreatedIssues == {num \in 1..Len(hubIssues) : ~hubIssues[num].pull_request /\ hubIssues[num].iid # 0}

\* the only remote calls that failed in this run are postings of comments
OnlyCommentsFailed == \A f \in failed : f.kind = "createComment"

\* the transferable notes of the created issues that are no comment
MissingComments ==
  {m \in CreatedIssues \X (1..MaxNotes) :
     (\E note \in Transferable(m[1]) : note.id = m[2]) /\ m[2] \notin Posted(m[1])}

\* C19: a comment is requested only on an issue that exists, the comments of
\* an issue are posted in ascending id of their source notes, and the closing
\* update of a new issue is requested only when no comment of it is still to
\* be requested; and when a first run ends in which nothing but postings of
\* comments failed, each failure left one comment out and no more, and every
\* issue created from a closed source issue is closed.
C19_OrderAndIsolation ==
  /\ \A r \in inflight :
       r.kind = "createComment" =>
         /\ r.num \in DestinationIssues
         /\ \A id \in Posted(r.num) : id < r.idx
  /\ \A a, b \in 1..Len(hubComments) :
       (a < b /\ hubComments[a].number = hubComments[b].number) =>
         hubComments[a].note < hubComments[b].note
  /\ \A r \in inflight :
       (r.kind = "editIssue" /\ r.awaited) =>
         /\ r.num \in DestinationIssues
         /\ \A q \in inflight : ~(q.kind = "createComment" /\ q.num = r.num)
         /\ OnlyCommentsFailed =>
              Cardinality({m \in MissingComments : m[1] = r.num}) <= faults
  /\ (run = 1 /\ status = "done" /\ OnlyCommentsFailed) =>
       /\ Cardinality(MissingComments) <= faults
       /\ \A num \in CreatedIssues :
            SourceIssue(hubIssues[num].iid).state = "closed" => hubIssues[num].state = "closed"

\* C19's case: a first run has ended in which the posting of the first comment
\* of a closed issue failed; its later comment is posted and it is closed
C19_Witness ==
  /\ run = 1 /\ status = "done" /\ failed # {} /\ OnlyCommentsFailed
  /\ \E num \in CreatedIssues :
       /\ Posted(num) = {2}
       /\ \E note \in Transferable(num) : note.id = 1
       /\ SourceIssue(hubIssues[num].iid).state = "closed"
       /\ hubIssues[num].state = "closed"

\* the source merge requests one of whose branches is named name
BranchOf(name) ==
  {mr \in Range(gitlab.mergeRequests) : name \in {headRef(mr), baseRef(mr)}}

\* a request to create the pull request of merge request mr was issued in this run
PullRequestIssued(mr) ==
  \E q \in requests : q.kind = "createPR" /\ q.title = mr.title /\ q.run = run

\* C20: while the process lives, every failed creation of a branch of a merge
\* request is logged, as existing or as not created, and the request to create
\* the pull request follows it: either createPRAndComments still is between
\* that failure and the request, which it has not issued yet, or the request
\* was issued, or the fetch of the merge commit failed in between.
C20_PullRequestSurvivesBranchErrors ==
  status \in {"running", "done"} =>
    \A f \in failed :
      f.kind = "createReference" =>
        /\ Log("Branch already exists", f.title) \in log
             \/ Log("Could not create branch", f.title) \in log
        /\ BranchOf(f.title) # {}
        /\ \A mr \in BranchOf(f.title) :
             \/ /\ Running /\ pc \in {"pr_commit", "pr_base", "pr_create"}
                /\ mergeRequests[i] = mr
                /\ ~PullRequestIssued(mr)
             \/ PullRequestIssued(mr)
             \/ [kind |-> "pr_commit", title |-> mr.title] \in failed

\* C20's case: a run has ended in which the base branch of merge request 1 was
\* requested at a null sha and not created, and in which the request to create
\* the pull request was issued
C20_Witness ==
  /\ status = "done"
  /\ Failure(createGHBranch("MR1-master-base", "", "base")) \in failed
  /\ Log("Could not create branch", "MR1-master-base") \in log
  /\ \E mr \in Range(gitlab.mergeRequests) :
       /\ parentCommit(mr) = ""
       /\ PullRequestIssued(mr)

\* C21: for a destination of any number of issues served in pages of 100, the
\* loop of getAllGHIssues ends, the last page it requests is the first one
\* that is empty or holds fewer than 100 issues, and what it returns, and what
\* transferIssues then holds as the listing, is every destination issue once.
C21_ListingComplete ==
  LET result == getAllGHIssues_while(<<>>, 1)
      Once(list) ==
        /\ Len(list) = Len(hubIssues)
        /\ \A n \in 1..Len(hubIssues) :
             Cardinality({k \in 1..Len(list) : list[k].number = hubIssues[n].number}) = 1
  IN /\ result.page = (Len(hubIssues) \div 100) + 1
     /\ Once(result.allIssues)
     /\ pc = "ti_loop" => Once(ghIssues)

\* C21's case: a destination of two full pages has been listed, the loop
\* having stopped at the empty third page
C21_Witness ==
  /\ pc = "ti_loop"
  /\ Len(hubIssues) = 200
  /\ Len(ghIssues) = 200
  /\ getAllGHIssues_while(<<>>, 1).page = 3

\* the sequence before is a prefix of the sequence after
Kept(before, after) ==
  Len(before) <= Len(after) /\ SubSeq(after, 1, Len(before)) = before

\* C22: no step changes or removes a milestone, a label, a comment or a branch
\* of the destination, and the only change a step makes to an issue or pull
\* request of the destination is that an issue, not a pull request, becomes
\* closed.
C22_ExistingLeftUnchanged ==
  [][ /\ Kept(hubMilestones, hubMilestones')
      /\ Kept(hubLabels, hubLabels')
      /\ hubOtherLabels' = hubOtherLabels
      /\ Kept(hubComments, hubComments')
      /\ hubRefs \subseteq hubRefs'
      /\ Len(hubIssues) <= Len(hubIssues')
      /\ \A n \in 1..Len(hubIssues) :
           \/ hubIssues'[n] = hubIssues[n]
           \/ /\ ~hubIssues[n].pull_request
              /\ hubIssues'[n] = [hubIssues[n] EXCEPT !.state = "closed"] ]_vars

\* the ISO-8601 timestamp of midnight UTC of a date, "" for no date
MidnightUTC(date) ==
  CASE date = "2017-06-01" -> "2017-06-01T00:00:00Z"
    [] date = "2017-12-24" -> "2017-12-24T00:00:00Z"
    [] OTHER -> ""

\* the destination milestone, or the request to create it, is the mapping of
\* a source milestone of its title
MapsSourceMilestone(title, description, state, due) ==
  \E m \in Range(gitlab.milestones) :
    /\ title = m.title
    /\ description = m.description
    /\ state = (IF m.state = "active" THEN "open" ELSE "closed")
    /\ due = MidnightUTC(m.due_date)

\* C23: every request to create a milestone, and every milestone of the
\* destination, has the title and the description of a source milestone, is
\* open when that one is active and closed otherwise, and is due at midnight
\* UTC of its due date or has no due_on when it has none; and when a first run
\* of the migration ends in which no remote call failed, every source
\* milestone is a milestone of the destination.
C23_MilestoneMapping ==
  /\ \A r \in inflight :
       r.kind = "createMilestone" =>
         MapsSourceMilestone(r.title, r.props.description, r.a, r.b)
  /\ \A n \in 1..Len(hubMilestones) :
       MapsSourceMilestone(hubMilestones[n].title, hubMilestones[n].description,
                           hubMilestones[n].state, hubMilestones[n].due_on)
  /\ (run = 1 /\ status = "done" /\ failed = {} /\ settings.gitlab.projectID # "null") =>
       \A m \in Range(gitlab.milestones) :
         \E n \in 1..Len(hubMilestones) : hubMilestones[n].title = m.title

\* C23's case: a first run has ended that created an open milestone with a
\* due date and a closed one without
C23_Witness ==
  /\ run = 1 /\ status = "done" /\ failed = {}
  /\ \E n \in 1..Len(hubMilestones) :
       hubMilestones[n].state = "open" /\ hubMilestones[n].due_on = "2017-06-01T00:00:00Z"
  /\ \E n \in 1..Len(hubMilestones) :
       hubMilestones[n].state = "closed" /\ hubMilestones[n].due_on = ""

====
